---------------------------- MODULE Spec2Model ----------------------------
(***************************************************************************)
(* Model of the yt-note backend core:                                      *)
(*   - reorder_chapters (backend/db/book_chapters_crud.py): the two-phase  *)
(*     renumbering of a book's chapters over the book_chapters table,      *)
(*     whose key is (book_id, chapter_id);                                 *)
(*   - enrich_chunk / enrich_chunks_parallel                               *)
(*     (backend/openai_api/enrichment.py): the per-field retry loop and    *)
(*     the two nested thread pools;                                        *)
(*   - ChunkEnricher.call_openai (backend/openai_enrichment.py): the       *)
(*     older client with exponential backoff.                              *)
(*   - the orchestrator stages (backend/orchestrator.py) over the          *)
(*     subtitle_chunks table and its storage bucket;                       *)
(*   - the word-bounded and the duration-bounded segmenters                *)
(*     (backend/subtitles/extractor.py, backend/text_chunker_v2.py).       *)
(***************************************************************************)
EXTENDS Integers, Sequences, FiniteSets, TLC

(***************************************************************************)
(* Bounds of the model.                                                    *)
(***************************************************************************)
\* Largest number of chapters a book of the model holds.
NumChapters == 3

(***************************************************************************)
(* Variables.                                                              *)
(***************************************************************************)
VARIABLES
    \* ---- book_chapters table of one book (the store) ----
    book_chapters,   \* sequence of rows; a row's index is its identity
    \* ---- one running reorder_chapters call per caller ----
    pc,              \* caller -> "idle" | "select" | "phaseA" | "phaseB" | "returned"
    chapter_order,   \* caller -> the chapter_order argument
    chapters,        \* caller -> keys of the `chapters` dict read by the SELECT
    idx,             \* caller -> loop index of the running for-loop (0-based)
    result,          \* caller -> "none" | "True" | "False"
    error,           \* caller -> why the call returned False
    writes,          \* caller -> number of UPDATE statements sent to the store
    \* ---- one enrich_chunks_parallel call ----
    epc,             \* "idle" | "running" | "returned" | "raised"
    chunks,          \* the `chunks` argument: a list of chunk dicts
    prompts,         \* the `prompts` argument: field -> has a template
    max_workers,     \* the `max_workers` argument
    api_key,         \* whether OPENAI_API_KEY is set in the environment
    wpc,             \* idx -> "queued" | "running" | "done" | "raised" (process_chunk)
    fpc,             \* idx -> field -> "idle" | "running" | "done" (process_field)
    retries,         \* idx -> field -> the local `retries` of process_field
    attempts,        \* idx -> field -> calls of client.chat.completions.create
    last_response,   \* idx -> field -> the collaborator's last answer
    results,         \* idx -> the `results` dict of enrich_chunk
    results_dict,    \* <<idx, enriched>> pairs in the order as_completed stored them
    output,          \* the list enrich_chunks_parallel returned
    faults,          \* rate-limit and error answers the collaborator may still give
    waits,           \* idx -> field -> the time.sleep() durations of process_field
    \* ---- one enrich_chunk_with_ai call (ChunkEnricher) ----
    ce_pc,           \* "idle" | "calling" | "returned" | "raised"
    ce_field,        \* index of the field generate_field is working on
    attempt,         \* the loop variable `attempt` of call_openai
    ce_calls,        \* field -> calls of self.client.chat.completions.create
    ce_last,         \* field -> the collaborator's last answer
    wait_times,      \* field -> the time.sleep() durations of call_openai
    ce_results,      \* the `results` dict of ChunkEnricher.enrich_chunk
    \* ---- subtitle_chunks table and storage bucket of one video ----
    subtitle_chunks, \* chunk_id -> row (the key is (video_id, chunk_id))
    chunk_files,     \* chunk_id -> text of the file "{video_id}/chunk_{chunk_id}.txt"
    \* ---- one orchestrator call on the video ----
    op,              \* "none" | "subtitles_only" | "enrichment_only" | "full" | "all_chunks"
    ppc,             \* position of the call, "idle" before and "returned" after it
    seg_chunks,      \* `chunks` of process_video_subtitles_only: the segmenter's texts
    db_chunks,       \* `db_chunks` of bulk_create_chunks: chunk_ids to upsert
    loop_i,          \* index of the running loop (1-based)
    sub_result,      \* what process_video_subtitles_only returned
    loaded_chunks,   \* `chunks` of the enrichment stage: <<chunk_id, chunk_text>> pairs
    enriched_chunks, \* `enriched_chunks`: what enrich_chunks_parallel returned
    updated_chunks,  \* chunk_ids whose UPDATE returned a row
    enrich_result,   \* what the enrichment stage returned
    full_result,     \* what process_full_video returned
    store_faults,    \* store and storage calls that may still fail
    store_at_call,   \* subtitle_chunks when the call was made
    files_at_call,   \* chunk_files when the call was made
    stages,          \* the stages entered, in order
    applied,         \* chunk_id -> the update_data its row was updated with
    write_failed,    \* an UPDATE of the enrichment stage raised
    \* ---- one run of the word-bounded segmenter ----
    seg_impl,        \* "extractor" (_chunk_by_words) | "v2" (chunk_by_words)
    seg_text,        \* the input text: word tokens k > 0, space tokens 0
    seg_params,      \* target_words, max_words, overlap_words, min_final_words,
                     \* words_per_segment
    seg_pc,          \* "start" | "loop" | "final" | "returned"
    sentences,       \* the pseudo-sentences of the text
    sent_i,          \* index of the sentence the for-loop takes next (1-based)
    word_chunks,     \* the `chunks` list
    current_chunk,   \* `current_chunk` / `current_chunk_sentences`
    current_word_count,
    \* ---- one run of the duration-bounded segmenter (_chunk_by_duration) ----
    entries,         \* the caption entries: records start, end, text
    dur_params,      \* target_duration, overlap_duration, min_final_duration
    dur_pc,          \* "start" | "loop" | "returned"
    dur_chunks,      \* the `chunks` list
    chunk_num,       \* `chunk_num`
    current_start    \* `current_start`

reorderVars == <<book_chapters, pc, chapter_order, chapters, idx, result, error, writes>>

enrichVars == <<epc, chunks, prompts, max_workers, api_key, wpc, fpc, retries,
                attempts, last_response, results, results_dict, output,
                faults, waits>>

enricherVars == <<ce_pc, ce_field, attempt, ce_calls, ce_last, wait_times,
                  ce_results>>

pipeVars == <<subtitle_chunks, chunk_files, op, ppc, seg_chunks, db_chunks,
              loop_i, sub_result, loaded_chunks, enriched_chunks, updated_chunks,
              enrich_result, full_result, store_faults, store_at_call,
              files_at_call, stages, applied, write_failed>>

segVars == <<seg_impl, seg_text, seg_params, seg_pc, sentences, sent_i,
             word_chunks, current_chunk, current_word_count>>

durVars == <<entries, dur_params, dur_pc, dur_chunks, chunk_num, current_start>>

vars == <<reorderVars, enrichVars, enricherVars, pipeVars, segVars, durVars>>

\* What reorder_chapters, the enrichment coordinator, the ChunkEnricher,
\* the orchestrator and the two segmenters leave alone.
notReorderVars == <<enrichVars, enricherVars, pipeVars, segVars, durVars>>
notEnrichVars == <<reorderVars, enricherVars, pipeVars, segVars, durVars>>
notEnricherVars == <<reorderVars, enrichVars, pipeVars, segVars, durVars>>
notPipeVars == <<reorderVars, enrichVars, enricherVars, segVars, durVars>>
notSegVars == <<reorderVars, enrichVars, enricherVars, pipeVars, durVars>>
notDurVars == <<reorderVars, enrichVars, enricherVars, pipeVars, segVars>>

(***************************************************************************)
(* The store: table book_chapters.                                         *)
(***************************************************************************)
\* The callers of reorder_chapters_endpoint that may hold a request in flight.
Callers == {"c1", "c2"}

\* The row create_chapter(book_id, i, "Chapter i", "Content i") upserts:
\* chapter_text_path is the UUID-based storage path, unique to the row.
NewChapter(i) ==
    [chapter_id        |-> i,
     chapter_title     |-> <<"title", i>>,
     chapter_text_path |-> <<"uuid", i>>,
     ai_field_1        |-> <<"ai1", i>>,
     ai_field_2        |-> <<"ai2", i>>,
     ai_field_3        |-> <<"ai3", i>>,
     note_content      |-> <<"note", i>>,
     updated_at        |-> "created"]

\* The set of chapter_id values stored for the book.
Positions(tbl) == {tbl[r].chapter_id : r \in DOMAIN tbl}

\* Rows of the book matching .eq("chapter_id", key).
Matching(tbl, key) == {r \in DOMAIN tbl : tbl[r].chapter_id = key}

\* Whether two rows of the book share a chapter_id.
HasDuplicate(tbl) ==
    \E r1, r2 \in DOMAIN tbl : r1 # r2 /\ tbl[r1].chapter_id = tbl[r2].chapter_id

\* .update({"chapter_id": new_id}).eq("book_id", b).eq("chapter_id", key):
\* every matching row gets the new chapter_id; no row matching is no error.
UpdateChapterId(tbl, key, new_id) ==
    [r \in DOMAIN tbl |->
        IF r \in Matching(tbl, key)
        THEN [tbl[r] EXCEPT !.chapter_id = new_id]
        ELSE tbl[r]]

\* Mutant of UpdateChapterIdAndTime: the storage path is rewritten from the
\* new position, as the chunk paths "chunk_{id}.txt" of subtitle chunks are.
UpdateChapterIdTimeAndPath(tbl, key, new_id) ==
    [r \in DOMAIN tbl |->
        IF r \in Matching(tbl, key)
        THEN [tbl[r] EXCEPT !.chapter_id = new_id, !.updated_at = "NOW()",
                            !.chapter_text_path = <<"uuid", new_id>>]
        ELSE tbl[r]]

\* .update({"chapter_id": new_id, "updated_at": "NOW()"}) on the same filter.
UpdateChapterIdAndTime(tbl, key, new_id) ==
    [r \in DOMAIN tbl |->
        IF r \in Matching(tbl, key)
        THEN [tbl[r] EXCEPT !.chapter_id = new_id, !.updated_at = "NOW()"]
        ELSE tbl[r]]

(***************************************************************************)
(* reorder_chapters.                                                       *)
(***************************************************************************)
\* Mutant of TempId: the temporary id is taken from the positive range.
TempIdPositive(i) == i + 1

\* temp_id = -(idx + 1)
TempId(i) == -(i + 1)

\* Mutant of NewId: the final positions are 0-indexed.
NewIdZeroIndexed(i) == i

\* Mutant of NewId: 1 is added to an index taken to be 1-based already.
NewIdOffByOne(i) == i + 2

\* new_id = idx + 1
NewId(i) == i + 1

\* The chapter_order arguments the model tries: lists of length 0..N+1 over
\* 1..N+1 (permutations, lists with repeats, omissions, unknown positions).
OrderInputs ==
    UNION {[1..n -> 1..(NumChapters + 1)] : n \in 0..(NumChapters + 1)}

\* Mutant of AllIdsExist: only the first entry of the list is verified.
FirstIdExists(order, keys) == Len(order) > 0 => order[1] \in keys

\* "for old_id in chapter_order: if old_id not in chapters: return False"
AllIdsExist(order, keys) == \A i \in 1..Len(order) : order[i] \in keys

\* No reorder_chapters call has been made on a book of n chapters.
ReorderIdle(n) ==
    /\ book_chapters = [i \in 1..n |-> NewChapter(i)]
    /\ pc = [c \in Callers |-> "idle"]
    /\ chapter_order = [c \in Callers |-> <<>>]
    /\ chapters = [c \in Callers |-> {}]
    /\ idx = [c \in Callers |-> 0]
    /\ result = [c \in Callers |-> "none"]
    /\ error = [c \in Callers |-> "none"]
    /\ writes = [c \in Callers |-> 0]

\* The return of reorder_chapters: False with the reason, or True.
Return(c, res, why) ==
    /\ pc' = [pc EXCEPT ![c] = "returned"]
    /\ result' = [result EXCEPT ![c] = res]
    /\ error' = [error EXCEPT ![c] = why]

\* reorder_chapters(book_id, order) is entered.
Call(c, order) ==
    /\ pc[c] = "idle"
    /\ pc' = [pc EXCEPT ![c] = "select"]
    /\ chapter_order' = [chapter_order EXCEPT ![c] = order]
    /\ UNCHANGED <<book_chapters, chapters, idx, result, error, writes>>
    /\ UNCHANGED notReorderVars

\* The SELECT and the checks made on what it read (lines 448-464).
Select(c) ==
    /\ pc[c] = "select"
    /\ chapters' = [chapters EXCEPT ![c] = Positions(book_chapters)]
    /\ IF book_chapters = <<>>
       THEN Return(c, "False", "no_chapters") /\ UNCHANGED idx
       ELSE IF ~AllIdsExist(chapter_order[c], chapters'[c])
       THEN Return(c, "False", "invalid_chapter_id") /\ UNCHANGED idx
       ELSE IF chapter_order[c] = <<>>
       THEN Return(c, "True", "none") /\ UNCHANGED idx
       ELSE /\ pc' = [pc EXCEPT ![c] = "phaseA"]
            /\ idx' = [idx EXCEPT ![c] = 0]
            /\ UNCHANGED <<result, error>>
    /\ UNCHANGED <<book_chapters, chapter_order, writes>>
    /\ UNCHANGED notReorderVars

\* One iteration of the first loop (lines 468-474): old_id -> temp_id.
\* A write that would give two rows of the book the same chapter_id is
\* refused by the table's key and raises; the except clause returns False.
PhaseAWrite(c) ==
    /\ pc[c] = "phaseA"
    /\ LET old_id == chapter_order[c][idx[c] + 1]
           tbl    == UpdateChapterId(book_chapters, old_id, TempId(idx[c]))
       IN IF HasDuplicate(tbl)
          THEN /\ Return(c, "False", "duplicate_key")
               /\ writes' = [writes EXCEPT ![c] = @ + 1]
               /\ UNCHANGED <<book_chapters, idx>>
          ELSE /\ book_chapters' = tbl
               /\ writes' = [writes EXCEPT ![c] = @ + 1]
               /\ IF idx[c] + 1 < Len(chapter_order[c])
                  THEN /\ idx' = [idx EXCEPT ![c] = @ + 1]
                       /\ UNCHANGED <<pc, result, error>>
                  ELSE /\ idx' = [idx EXCEPT ![c] = 0]
                       /\ pc' = [pc EXCEPT ![c] = "phaseB"]
                       /\ UNCHANGED <<result, error>>
    /\ UNCHANGED <<chapter_order, chapters>>
    /\ UNCHANGED notReorderVars

\* One iteration of the second loop (lines 479-486): temp_id -> new_id.
PhaseBWrite(c) ==
    /\ pc[c] = "phaseB"
    /\ LET tbl == UpdateChapterIdAndTime(book_chapters, TempId(idx[c]), NewId(idx[c]))
       IN IF HasDuplicate(tbl)
          THEN /\ Return(c, "False", "duplicate_key")
               /\ writes' = [writes EXCEPT ![c] = @ + 1]
               /\ UNCHANGED <<book_chapters, idx>>
          ELSE /\ book_chapters' = tbl
               /\ writes' = [writes EXCEPT ![c] = @ + 1]
               /\ IF idx[c] + 1 < Len(chapter_order[c])
                  THEN /\ idx' = [idx EXCEPT ![c] = @ + 1]
                       /\ UNCHANGED <<pc, result, error>>
                  ELSE /\ idx' = [idx EXCEPT ![c] = @ + 1]
                       /\ Return(c, "True", "none")
    /\ UNCHANGED <<chapter_order, chapters>>
    /\ UNCHANGED notReorderVars

\* A store request fails (network, server): .execute() raises and the
\* except clause (lines 491-493) returns False, whatever was written so far.
StoreFailure(c) ==
    /\ pc[c] \in {"select", "phaseA", "phaseB"}
    /\ Return(c, "False", "store_failure")
    /\ UNCHANGED <<book_chapters, chapter_order, chapters, idx, writes>>
    /\ UNCHANGED notReorderVars

(***************************************************************************)
(* enrich_chunk and enrich_chunks_parallel (openai_api/enrichment.py).     *)
(* Strings are lists of tokens: a word <<"w", ...>> or whitespace <<"ws">>.*)
(* Python lists and loop indices are 0-based; the lists here are 1-based.  *)
(***************************************************************************)
\* The four fields of the `fields` dict of enrich_chunk.
Fields == {"title", "field_1", "field_2", "field_3"}

\* max_retries: int = 3
max_retries == 3

\* retry_delay: int = 5
retry_delay == 5

\* A whitespace token; a word token, its payload s a tuple.
Ws == <<"ws">>
Word(s) == <<"w", s>>

\* The text of the i-th chunk of the input list.
ChunkText(i) == <<Word(<<"text", i>>)>>

\* The chunk dict the orchestrator builds for the i-th chunk.
ChunkDict(i) == [text |-> ChunkText(i), word_count |-> <<"words", i>>]

\* get_all_prompts(content_type): the title template exists for videos only.
GetAllPrompts(content_type) ==
    [f \in Fields |-> IF f = "title" THEN content_type = "video" ELSE TRUE]

ContentTypes == {"video", "book"}

\* response.choices[0].message.content for the prompt built from (text,
\* field): the completion, with the whitespace a model puts around it.
Completion(text, f) == <<Ws, Word(<<"generated", text, f>>), Ws>>

RECURSIVE StripLeft(_)
StripLeft(str) ==
    IF str # <<>> /\ Head(str) = Ws THEN StripLeft(Tail(str)) ELSE str

RECURSIVE StripRight(_)
StripRight(str) ==
    IF str # <<>> /\ str[Len(str)] = Ws
    THEN StripRight(SubSeq(str, 1, Len(str) - 1))
    ELSE str

\* str.strip()
Strip(str) == StripRight(StripLeft(str))

\* return field_name, ""   (no template for the field)
EmptyValue == <<>>

\* return field_name, f"[Rate limit exceeded]"
RateLimitValue == <<Word(<<"[Rate limit exceeded]">>)>>

\* return field_name, f"[Error: {str(e)}]"
ErrorValue == <<Word(<<"[Error: ">>), Word(<<"e">>), Word(<<"]">>)>>

\* Mutant of CanRetry: one retry fewer than max_retries is allowed.
CanRetryStrict(r) == r < max_retries

\* Mutant of CanRetry: one retry more than max_retries is allowed.
CanRetryOneMore(r) == r <= max_retries + 1

\* "if retries <= max_retries:" after "retries += 1" (same test as the while)
CanRetry(r) == r <= max_retries

\* Mutant of OnException: the handler lets the exception escape.
OnExceptionRaise == [kind |-> "raise", value |-> ErrorValue]

\* Mutant of OnException: the handler goes to the next turn of the loop.
OnExceptionRetry == [kind |-> "retry", value |-> EmptyValue]

\* "except Exception as e: ... return field_name, f"[Error: {str(e)}]""
OnException == [kind |-> "return", value |-> ErrorValue]

\* "return field_name, response.choices[0].message.content.strip()"
OnCompletion(text, f) == [kind |-> "return", value |-> Strip(Completion(text, f))]

\* The RateLimitError handler, r being `retries` after "retries += 1".
OnRateLimit(r) ==
    IF CanRetry(r)
    THEN [kind |-> "retry", value |-> EmptyValue, sleep |-> <<retry_delay>>]
    ELSE [kind |-> "return", value |-> RateLimitValue, sleep |-> <<>>]

\* {**chunk, **result}: the keys of result win.
Merge(chunk, res) == res @@ chunk

\* results_dict[i], the dict being a list of <<key, value>> in insertion order.
Lookup(dict, k) ==
    LET j == CHOOSE j \in 1..Len(dict) : dict[j][1] = k IN dict[j][2]

\* Mutant of EnrichedList: the values are listed in insertion order, which
\* is the order of completion.
EnrichedListAsCompleted(dict, n) == [i \in 1..n |-> dict[i][2]]

\* [results_dict[i] for i in range(len(chunks))]
EnrichedList(dict, n) == [i \in 1..n |-> Lookup(dict, i)]

\* No enrich_chunks_parallel call has been made.
EnrichIdle ==
    /\ epc = "idle"
    /\ chunks = <<>>
    /\ prompts = GetAllPrompts("video")
    /\ max_workers = 1
    /\ wpc = <<>>
    /\ fpc = <<>>
    /\ retries = <<>>
    /\ attempts = <<>>
    /\ last_response = <<>>
    /\ results = <<>>
    /\ results_dict = <<>>
    /\ output = <<>>
    /\ faults = 0
    /\ waits = <<>>

\* enrich_chunks_parallel(chunks, prompts, max_workers=W) is entered: every
\* chunk is submitted to the pool. budget bounds the collaborator's
\* rate-limit and error answers during the call.
EnrichCall(n, content_type, W, budget) ==
    /\ epc = "idle"
    /\ epc' = "running"
    /\ chunks' = [i \in 1..n |-> ChunkDict(i)]
    /\ prompts' = GetAllPrompts(content_type)
    /\ max_workers' = W
    /\ wpc' = [i \in 1..n |-> "queued"]
    /\ fpc' = [i \in 1..n |-> [f \in Fields |-> "idle"]]
    /\ retries' = [i \in 1..n |-> [f \in Fields |-> 0]]
    /\ attempts' = [i \in 1..n |-> [f \in Fields |-> 0]]
    /\ last_response' = [i \in 1..n |-> [f \in Fields |-> "none"]]
    /\ results' = [i \in 1..n |-> <<>>]
    /\ faults' = budget
    /\ waits' = [i \in 1..n |-> [f \in Fields |-> <<>>]]
    /\ UNCHANGED <<results_dict, output, api_key>>
    /\ UNCHANGED notEnrichVars

\* Mutant of PoolHasFreeWorker: a thread is started for every submitted task.
PoolUnbounded(running, W) == running >= 0

\* ThreadPoolExecutor(max_workers=W): a queued task starts only while fewer
\* than W of the pool's tasks are running.
PoolHasFreeWorker(running, W) == running < W

\* A pool worker takes the next submitted chunk (the pool's queue is FIFO)
\* and runs process_chunk -> enrich_chunk up to the submission of the four
\* process_field tasks to the 4-wide pool: each starts at once; a field
\* without template returns "" without any call. Without an API key
\* enrich_chunk raises ValueError.
StartChunk(i) ==
    /\ epc = "running"
    /\ wpc[i] = "queued"
    /\ \A j \in 1..(i - 1) : wpc[j] # "queued"
    /\ PoolHasFreeWorker(Cardinality({j \in DOMAIN wpc : wpc[j] = "running"}),
                         max_workers)
    /\ IF ~api_key
       THEN /\ wpc' = [wpc EXCEPT ![i] = "raised"]
            /\ UNCHANGED <<fpc, results>>
       ELSE /\ wpc' = [wpc EXCEPT ![i] = "running"]
            /\ fpc' = [fpc EXCEPT ![i] =
                         [f \in Fields |-> IF prompts[f] THEN "running" ELSE "done"]]
            /\ results' = [results EXCEPT ![i] =
                         [f \in {g \in Fields : ~prompts[g]} |-> EmptyValue]]
    /\ UNCHANGED <<epc, chunks, prompts, max_workers, api_key, retries, attempts,
                   last_response, results_dict, output, faults, waits>>
    /\ UNCHANGED notEnrichVars

\* What process_field does with the outcome `out` of one call for (i, f);
\* a returned value is stored by "results[field_name] = result".
FieldOutcome(i, f, out) ==
    /\ fpc' = [fpc EXCEPT ![i][f] =
                 CASE out.kind = "retry" -> "running"
                   [] out.kind = "return" -> "done"
                   [] out.kind = "raise" -> "raised"]
    /\ results' = [results EXCEPT ![i] =
                     IF out.kind = "return" THEN (f :> out.value) @@ @ ELSE @]

\* One call of client.chat.completions.create for (i, f) that succeeds.
FieldCompletion(i, f) ==
    /\ epc = "running" /\ wpc[i] = "running" /\ fpc[i][f] = "running"
    /\ attempts' = [attempts EXCEPT ![i][f] = @ + 1]
    /\ last_response' = [last_response EXCEPT ![i][f] = "ok"]
    /\ FieldOutcome(i, f, OnCompletion(chunks[i].text, f))
    /\ UNCHANGED <<epc, chunks, prompts, max_workers, api_key, wpc, retries,
                   results_dict, output, faults, waits>>
    /\ UNCHANGED notEnrichVars

\* One call for (i, f) answered with RateLimitError: retries += 1, then
\* either time.sleep(retry_delay) (recorded in waits) and the next turn of
\* the loop, or the sentinel.
FieldRateLimited(i, f) ==
    /\ epc = "running" /\ wpc[i] = "running" /\ fpc[i][f] = "running"
    /\ faults > 0
    /\ faults' = faults - 1
    /\ attempts' = [attempts EXCEPT ![i][f] = @ + 1]
    /\ last_response' = [last_response EXCEPT ![i][f] = "rate_limit"]
    /\ retries' = [retries EXCEPT ![i][f] = @ + 1]
    /\ FieldOutcome(i, f, OnRateLimit(retries[i][f] + 1))
    /\ waits' = [waits EXCEPT ![i][f] = @ \o OnRateLimit(retries[i][f] + 1).sleep]
    /\ UNCHANGED <<epc, chunks, prompts, max_workers, api_key, wpc,
                   results_dict, output>>
    /\ UNCHANGED notEnrichVars

\* One call for (i, f) that raises any other exception.
FieldError(i, f) ==
    /\ epc = "running" /\ wpc[i] = "running" /\ fpc[i][f] = "running"
    /\ faults > 0
    /\ faults' = faults - 1
    /\ attempts' = [attempts EXCEPT ![i][f] = @ + 1]
    /\ last_response' = [last_response EXCEPT ![i][f] = "error"]
    /\ FieldOutcome(i, f, OnException)
    /\ UNCHANGED <<epc, chunks, prompts, max_workers, api_key, wpc, retries,
                   results_dict, output, waits>>
    /\ UNCHANGED notEnrichVars

\* The four futures of chunk i are finished: the 4-wide pool is left,
\* enrich_chunk returns `results` (or future.result() re-raises what a
\* process_field raised), process_chunk returns (idx, {**chunk, **result})
\* and the as_completed loop stores it in results_dict.
FinishChunk(i) ==
    /\ epc = "running" /\ wpc[i] = "running"
    /\ \A f \in Fields : fpc[i][f] \in {"done", "raised"}
    /\ IF \E f \in Fields : fpc[i][f] = "raised"
       THEN /\ wpc' = [wpc EXCEPT ![i] = "raised"]
            /\ UNCHANGED results_dict
       ELSE /\ wpc' = [wpc EXCEPT ![i] = "done"]
            /\ results_dict' = Append(results_dict, <<i, Merge(chunks[i], results[i])>>)
    /\ UNCHANGED <<epc, chunks, prompts, max_workers, api_key, fpc, retries,
                   attempts, last_response, results, output, faults, waits>>
    /\ UNCHANGED notEnrichVars

\* Every submitted chunk is finished: the pool is left. future.result()
\* re-raised if a process_chunk raised; otherwise the list is returned.
EnrichReturn ==
    /\ epc = "running"
    /\ \A i \in DOMAIN wpc : wpc[i] \in {"done", "raised"}
    /\ IF \E i \in DOMAIN wpc : wpc[i] = "raised"
       THEN /\ epc' = "raised"
            /\ UNCHANGED output
       ELSE /\ epc' = "returned"
            /\ output' = EnrichedList(results_dict, Len(chunks))
    /\ UNCHANGED <<chunks, prompts, max_workers, api_key, wpc, fpc, retries,
                   attempts, last_response, results, results_dict, faults, waits>>
    /\ UNCHANGED notEnrichVars

(***************************************************************************)
(* ChunkEnricher (backend/openai_enrichment.py): the client of             *)
(* background_worker.py. enrich_chunk generates the four fields one after  *)
(* another; call_openai retries a rate-limited call with exponential       *)
(* backoff.                                                                *)
(***************************************************************************)
\* The keys of the `results` dict of ChunkEnricher.enrich_chunk, in the
\* order their values are computed.
EnricherFields == <<"short_title", "ai_field_1", "ai_field_2", "ai_field_3">>

\* max_retries: int = 5   (call_openai)
call_openai_max_retries == 5

\* initial_wait: float = 1.0
initial_wait == 1

\* Python's None.
None == << <<"None">> >>

RECURSIVE Pow2(_)
\* 2 ** n
Pow2(n) == IF n = 0 THEN 1 ELSE 2 * Pow2(n - 1)

\* wait_time = initial_wait * (2 ** attempt)
WaitTime(a) == initial_wait * Pow2(a)

\* "if attempt < max_retries - 1: time.sleep(wait_time)"
SleepsAfter(a) == a < call_openai_max_retries - 1

\* generate_field: "if result: return result / else: return None".
GenerateFieldValue(res) == IF res # <<>> THEN res ELSE None

\* No enrich_chunk_with_ai call has been made.
EnricherIdle ==
    /\ ce_pc = "idle"
    /\ ce_field = 1
    /\ attempt = 0
    /\ ce_calls = <<>>
    /\ ce_last = <<>>
    /\ wait_times = <<>>
    /\ ce_results = <<>>

\* enrich_chunk_with_ai(chunk_text): ChunkEnricher() raises ValueError
\* without an API key; otherwise enrich_chunk starts with its first field.
EnricherCall ==
    /\ ce_pc = "idle"
    /\ IF ~api_key
       THEN /\ ce_pc' = "raised"
            /\ UNCHANGED <<ce_calls, ce_last, wait_times>>
       ELSE /\ ce_pc' = "calling"
            /\ ce_calls' = [k \in DOMAIN EnricherFields |-> 0]
            /\ ce_last' = [k \in DOMAIN EnricherFields |-> "none"]
            /\ wait_times' = [k \in DOMAIN EnricherFields |-> <<>>]
    /\ UNCHANGED <<ce_field, attempt, ce_results>>
    /\ UNCHANGED notEnricherVars

\* generate_field returns `value` for the current field: the value is stored
\* under the field's key and the next generate_field starts, or enrich_chunk
\* returns `results` after the last one.
GenerateFieldReturns(value) ==
    /\ ce_results' = (EnricherFields[ce_field] :> value) @@ ce_results
    /\ IF ce_field = Len(EnricherFields)
       THEN /\ ce_pc' = "returned"
            /\ UNCHANGED <<ce_field, attempt>>
       ELSE /\ ce_pc' = "calling"
            /\ ce_field' = ce_field + 1
            /\ attempt' = 0

\* One call of self.client.chat.completions.create that succeeds.
CallOpenaiCompletion ==
    /\ ce_pc = "calling"
    /\ ce_calls' = [ce_calls EXCEPT ![ce_field] = @ + 1]
    /\ ce_last' = [ce_last EXCEPT ![ce_field] = "ok"]
    /\ GenerateFieldReturns(GenerateFieldValue(
            Strip(Completion(ChunkText(1), EnricherFields[ce_field]))))
    /\ UNCHANGED wait_times
    /\ UNCHANGED notEnricherVars

\* One call answered with RateLimitError: sleep wait_time and go to the next
\* attempt, or return None on the last attempt.
CallOpenaiRateLimited ==
    /\ ce_pc = "calling"
    /\ ce_calls' = [ce_calls EXCEPT ![ce_field] = @ + 1]
    /\ ce_last' = [ce_last EXCEPT ![ce_field] = "rate_limit"]
    /\ IF SleepsAfter(attempt)
       THEN /\ wait_times' = [wait_times EXCEPT ![ce_field] =
                                 Append(@, WaitTime(attempt))]
            /\ IF attempt + 1 < call_openai_max_retries
               THEN /\ attempt' = attempt + 1
                    /\ UNCHANGED <<ce_pc, ce_field, ce_results>>
               ELSE GenerateFieldReturns(None)
       ELSE /\ UNCHANGED wait_times
            /\ GenerateFieldReturns(None)
    /\ UNCHANGED notEnricherVars

\* One call that raises any other exception: "return None".
CallOpenaiError ==
    /\ ce_pc = "calling"
    /\ ce_calls' = [ce_calls EXCEPT ![ce_field] = @ + 1]
    /\ ce_last' = [ce_last EXCEPT ![ce_field] = "error"]
    /\ GenerateFieldReturns(None)
    /\ UNCHANGED wait_times
    /\ UNCHANGED notEnricherVars

(***************************************************************************)
(* The orchestrator (backend/orchestrator.py) over the subtitle_chunks     *)
(* table and the storage bucket of one video                               *)
(* (backend/db/subtitle_chunks_crud.py, subtitle_chunks_storage.py).       *)
(* A store or storage call that fails raises inside the CRUD function,     *)
(* which catches it and returns None or False.                             *)
(***************************************************************************)
\* The AI columns of subtitle_chunks.
AiColumns == {"short_title", "ai_field_1", "ai_field_2", "ai_field_3"}

\* The text of the i-th chunk the segmenter emits in run `run` (run 0 made
\* the chunks stored before the call, run 1 is the call's own).
SegText(run, i) == <<Word(<<"segment", run, i>>)>>

\* A row an earlier full run created at position i, with the user's note.
StoredRow(i) ==
    [chunk_text_path |-> i,
     short_title     |-> <<Word(<<"old", "short_title", i>>)>>,
     ai_field_1      |-> <<Word(<<"old", "ai_field_1", i>>)>>,
     ai_field_2      |-> <<Word(<<"old", "ai_field_2", i>>)>>,
     ai_field_3      |-> <<Word(<<"old", "ai_field_3", i>>)>>,
     note_content    |-> <<Word(<<"note", i>>)>>]

\* The table and the bucket holding chunks at the positions of S.
StoreOf(S) == [i \in S |-> StoredRow(i)]
FilesOf(S) == [i \in S |-> SegText(0, i)]

\* The db_chunk bulk_create_chunks builds from the chunks_for_db entry of
\* position i: the storage path and the four AI fields, all None.
DbChunk(i) ==
    [chunk_text_path |-> i,
     short_title     |-> None,
     ai_field_1      |-> None,
     ai_field_2      |-> None,
     ai_field_3      |-> None]

\* supabase.table("subtitle_chunks").upsert(db_chunks): a row is inserted
\* (note_content NULL), or on a key conflict the columns sent are updated.
Upsert(tbl, ids) ==
    [k \in (DOMAIN tbl) \cup ids |->
        IF k \in ids
        THEN IF k \in DOMAIN tbl
             THEN DbChunk(k) @@ tbl[k]
             ELSE DbChunk(k) @@ [note_content |-> None]
        ELSE tbl[k]]

\* Variant of UpdateRow: the row is replaced by one holding the columns sent.
ReplaceRow(tbl, id, data) ==
    IF id \in DOMAIN tbl
    THEN [tbl EXCEPT ![id] =
            data @@ [chunk_text_path |-> @.chunk_text_path, note_content |-> None]]
    ELSE tbl

\* .update(update_data).eq('video_id', v).eq('chunk_id', id): the columns of
\* update_data are set in the matching row; no matching row is no error.
UpdateRow(tbl, id, data) ==
    IF id \in DOMAIN tbl THEN [tbl EXCEPT ![id] = data @@ @] ELSE tbl

\* bool(d) of a Python dict: whether it has a key.
DictTruthy(d) == DOMAIN d # {}

RECURSIVE SortedIds(_)
\* .order("chunk_id"): the ids of S in ascending order.
SortedIds(S) ==
    IF S = {}
    THEN <<>>
    ELSE LET m == CHOOSE x \in S : \A y \in S : x <= y
         IN <<m>> \o SortedIds(S \ {m})

\* How the generation of the fields of one chunk may end.
Kinds == {"ok", "rate_limit", "error"}

\* The value process_field returns for field f of a chunk with this text.
FieldValue(kind, text, f) ==
    CASE kind = "ok" -> OnCompletion(text, f).value
      [] kind = "rate_limit" -> RateLimitValue
      [] kind = "error" -> OnException.value

\* What enrich_chunks_parallel returns for the chunk dict `chunk` (video
\* prompts: every field has a template): {**chunk, **result}.
EnrichedChunk(chunk, kind) ==
    Merge(chunk, [f \in Fields |-> FieldValue(kind, chunk.text, f)])

\* update_data of bulk_update_ai_fields and update_chunk_ai_fields.
UpdateData(enriched) ==
    [short_title |-> enriched.title,
     ai_field_1  |-> enriched.field_1,
     ai_field_2  |-> enriched.field_2,
     ai_field_3  |-> enriched.field_3]

\* Variant of AllChunksResult: one updated chunk is reported as success.
AllChunksResultAny(success_count, n) ==
    IF success_count > 0 THEN "True" ELSE "False"

\* "return success_count == len(enriched_chunks)"
AllChunksResult(success_count, n) ==
    IF success_count = n THEN "True" ELSE "False"

\* bulk_update_ai_fields: "if updated_chunks: return updated_chunks / else:
\* return None", then "if not result: return False".
BulkUpdateResult(updated) == IF updated # <<>> THEN "True" ELSE "False"

\* bool(v) of a column value: None and the empty string are falsy.
ValueTruthy(v) == v # None /\ v # <<>>

\* is_chunk_processed(chunk): all([...]) over the four AI columns.
IsChunkProcessed(chunk) == \A col \in AiColumns : ValueTruthy(chunk[col])

\* get_processing_progress(video_id) on the rows get_chunks_by_video reads.
GetProcessingProgress(tbl) ==
    LET total == Cardinality(DOMAIN tbl)
        processed == Cardinality({p \in DOMAIN tbl : IsChunkProcessed(tbl[p])})
    IN [total_chunks       |-> total,
        processed_chunks   |-> processed,
        unprocessed_chunks |-> total - processed]

\* The video holds chunks at the positions of S and no call is running.
PipeIdle(S) ==
    /\ subtitle_chunks = StoreOf(S)
    /\ chunk_files = FilesOf(S)
    /\ op = "none"
    /\ ppc = "idle"
    /\ seg_chunks = <<>>
    /\ db_chunks = <<>>
    /\ loop_i = 1
    /\ sub_result = <<>>
    /\ loaded_chunks = <<>>
    /\ enriched_chunks = <<>>
    /\ updated_chunks = <<>>
    /\ enrich_result = "none"
    /\ full_result = "none"
    /\ store_faults = 0
    /\ store_at_call = StoreOf(S)
    /\ files_at_call = FilesOf(S)
    /\ stages = <<>>
    /\ applied = <<>>
    /\ write_failed = FALSE

\* A store or storage call succeeds (ok), or fails while failures are left.
StoreAnswers(ok) ==
    /\ ok \in BOOLEAN
    /\ ~ok => store_faults > 0
    /\ store_faults' = IF ok THEN store_faults ELSE store_faults - 1

\* One of the four orchestrator functions is called for the video.
PipelineCall(o, budget) ==
    /\ ppc = "idle"
    /\ op' = o
    /\ ppc' = IF o \in {"subtitles_only", "full"} THEN "delete_files" ELSE "select"
    /\ stages' = IF o \in {"subtitles_only", "full"}
                 THEN <<"subtitles">> ELSE <<"enrichment">>
    /\ store_at_call' = subtitle_chunks
    /\ files_at_call' = chunk_files
    /\ store_faults' = budget
    /\ UNCHANGED <<subtitle_chunks, chunk_files, seg_chunks, db_chunks, loop_i,
                   sub_result, loaded_chunks, enriched_chunks, updated_chunks,
                   enrich_result, full_result, applied, write_failed>>
    /\ UNCHANGED notPipeVars

\* process_video_subtitles_only returns res. In process_full_video the
\* returned dict is tested by "if not success: return False" and the
\* enrichment stage follows.
SubtitlesReturn(res) ==
    /\ sub_result' = <<res>>
    /\ IF op = "full"
       THEN IF ~DictTruthy(res)
            THEN /\ ppc' = "returned"
                 /\ full_result' = "False"
                 /\ UNCHANGED stages
            ELSE /\ ppc' = "select"
                 /\ stages' = Append(stages, "enrichment")
                 /\ UNCHANGED full_result
       ELSE /\ ppc' = "returned"
            /\ UNCHANGED <<full_result, stages>>

\* The enrichment stage returns res; process_full_video returns it as well.
EnrichStageReturn(res) ==
    /\ enrich_result' = res
    /\ ppc' = "returned"
    /\ full_result' = IF op = "full" THEN res ELSE full_result

\* delete_chunks_by_video, first call: delete_video_chunks_from_storage
\* lists and removes the video's files; a failure is caught and its False
\* ignored.
DeleteFiles(ok) ==
    /\ ppc = "delete_files"
    /\ StoreAnswers(ok)
    /\ chunk_files' = IF ok THEN <<>> ELSE chunk_files
    /\ ppc' = "delete_rows"
    /\ UNCHANGED <<subtitle_chunks, op, seg_chunks, db_chunks, loop_i, sub_result,
                   loaded_chunks, enriched_chunks, updated_chunks, enrich_result,
                   full_result, store_at_call, files_at_call, stages, applied,
                   write_failed>>
    /\ UNCHANGED notPipeVars

\* delete_chunks_by_video, second call: DELETE ... WHERE video_id; a failure
\* is caught, delete_chunks_by_video returns False and the orchestrator
\* ignores it.
DeleteRows(ok) ==
    /\ ppc = "delete_rows"
    /\ StoreAnswers(ok)
    /\ subtitle_chunks' = IF ok THEN <<>> ELSE subtitle_chunks
    /\ ppc' = "segment"
    /\ UNCHANGED <<chunk_files, op, seg_chunks, db_chunks, loop_i, sub_result,
                   loaded_chunks, enriched_chunks, updated_chunks, enrich_result,
                   full_result, store_at_call, files_at_call, stages, applied,
                   write_failed>>
    /\ UNCHANGED notPipeVars

\* process_video_subtitles returns n chunks; without chunks the function
\* returns {"success": False, "chunk_count": 0, ...}, otherwise
\* bulk_create_chunks starts its upload loop.
Segment(n) ==
    /\ ppc = "segment"
    /\ seg_chunks' = [i \in 1..n |-> SegText(1, i)]
    /\ IF n = 0
       THEN /\ SubtitlesReturn([success |-> FALSE, chunk_count |-> 0])
            /\ UNCHANGED <<loop_i, db_chunks>>
       ELSE /\ ppc' = "upload"
            /\ loop_i' = 1
            /\ db_chunks' = <<>>
            /\ UNCHANGED <<sub_result, full_result, stages>>
    /\ UNCHANGED <<subtitle_chunks, chunk_files, op, loaded_chunks,
                   enriched_chunks, updated_chunks, enrich_result, store_faults,
                   store_at_call, files_at_call, applied, write_failed>>
    /\ UNCHANGED notPipeVars

\* One turn of the upload loop of bulk_create_chunks: upload_chunk_text for
\* chunk_id loop_i; on failure the chunk is skipped ("continue"). After the
\* last turn: "if not db_chunks: return None", which the orchestrator
\* reports as a failed save.
UploadChunk(ok) ==
    /\ ppc = "upload"
    /\ StoreAnswers(ok)
    /\ chunk_files' = IF ok
                      THEN (loop_i :> seg_chunks[loop_i]) @@ chunk_files
                      ELSE chunk_files
    /\ db_chunks' = IF ok THEN Append(db_chunks, loop_i) ELSE db_chunks
    /\ IF loop_i < Len(seg_chunks)
       THEN /\ loop_i' = loop_i + 1
            /\ UNCHANGED <<ppc, sub_result, full_result, stages>>
       ELSE /\ UNCHANGED loop_i
            /\ IF db_chunks' = <<>>
               THEN SubtitlesReturn([success |-> FALSE, chunk_count |-> 0])
               ELSE /\ ppc' = "upsert"
                    /\ UNCHANGED <<sub_result, full_result, stages>>
    /\ UNCHANGED <<subtitle_chunks, op, seg_chunks, loaded_chunks,
                   enriched_chunks, updated_chunks, enrich_result, store_at_call,
                   files_at_call, applied, write_failed>>
    /\ UNCHANGED notPipeVars

\* The bulk upsert of db_chunks and the return of
\* process_video_subtitles_only: success with chunk_count = len(chunks), or
\* a failed save when the upsert raised.
UpsertChunks(ok) ==
    /\ ppc = "upsert"
    /\ StoreAnswers(ok)
    /\ subtitle_chunks' =
          IF ok
          THEN Upsert(subtitle_chunks, {db_chunks[j] : j \in DOMAIN db_chunks})
          ELSE subtitle_chunks
    /\ SubtitlesReturn(IF ok
                       THEN [success |-> TRUE, chunk_count |-> Len(seg_chunks)]
                       ELSE [success |-> FALSE, chunk_count |-> 0])
    /\ UNCHANGED <<chunk_files, op, seg_chunks, db_chunks, loop_i, loaded_chunks,
                   enriched_chunks, updated_chunks, enrich_result, store_at_call,
                   files_at_call, applied, write_failed>>
    /\ UNCHANGED notPipeVars

\* get_chunks_by_video: the rows of the video ordered by chunk_id, or [] when
\* the SELECT raised. Without rows the stage returns False.
SelectChunks(ok) ==
    /\ ppc = "select"
    /\ StoreAnswers(ok)
    /\ LET ids == IF ok THEN SortedIds(DOMAIN subtitle_chunks) ELSE <<>>
       IN /\ loaded_chunks' =
                [j \in DOMAIN ids |->
                    [chunk_id        |-> ids[j],
                     chunk_text_path |-> subtitle_chunks[ids[j]].chunk_text_path,
                     chunk_text      |-> None]]
          /\ IF ids = <<>>
             THEN /\ EnrichStageReturn("False")
                  /\ UNCHANGED loop_i
             ELSE /\ ppc' = "download"
                  /\ loop_i' = 1
                  /\ UNCHANGED <<enrich_result, full_result>>
    /\ UNCHANGED <<subtitle_chunks, chunk_files, op, seg_chunks, db_chunks,
                   sub_result, enriched_chunks, updated_chunks, store_at_call,
                   files_at_call, stages, applied, write_failed>>
    /\ UNCHANGED notPipeVars

\* chunk['chunk_text'] after load_chunk_text: the file's text, or None when
\* the download failed or the file does not exist.
DownloadedText(ok, path) ==
    IF ok /\ path \in DOMAIN chunk_files THEN chunk_files[path] ELSE None

\* len(text.split())
WordCount(text) == Cardinality({k \in DOMAIN text : text[k][1] = "w"})

\* chunks_for_enrichment: process_ai_enrichment_only takes every loaded
\* chunk, process_video_all_chunks_ai_enrichment those with a text, whose
\* chunk_id it carries along.
ChunksForEnrichment(o, loaded) ==
    IF o = "all_chunks"
    THEN LET with_text == SelectSeq(loaded, LAMBDA c : c.chunk_text # None)
         IN [j \in DOMAIN with_text |->
                [text     |-> with_text[j].chunk_text,
                 chunk_id |-> with_text[j].chunk_id,
                 video_id |-> "video"]]
    ELSE [j \in DOMAIN loaded |->
                [text           |-> loaded[j].chunk_text,
                 word_count     |-> WordCount(loaded[j].chunk_text),
                 sentence_count |-> 0]]

\* One turn of load_chunks_text. After the last turn the chunks for the
\* enrichment are built: in process_ai_enrichment_only a chunk without text
\* raises (None has no split) and the stage returns False; in
\* process_video_all_chunks_ai_enrichment no chunk with text returns False.
DownloadChunk(ok) ==
    /\ ppc = "download"
    /\ StoreAnswers(ok)
    /\ loaded_chunks' =
          [loaded_chunks EXCEPT ![loop_i].chunk_text =
                DownloadedText(ok, loaded_chunks[loop_i].chunk_text_path)]
    /\ IF loop_i < Len(loaded_chunks)
       THEN /\ loop_i' = loop_i + 1
            /\ UNCHANGED <<ppc, enrich_result, full_result>>
       ELSE /\ UNCHANGED loop_i
            /\ IF \/ /\ op # "all_chunks"
                     /\ \E j \in DOMAIN loaded_chunks' :
                            loaded_chunks'[j].chunk_text = None
                  \/ /\ op = "all_chunks"
                     /\ ChunksForEnrichment(op, loaded_chunks') = <<>>
               THEN EnrichStageReturn("False")
               ELSE /\ ppc' = "enrich"
                    /\ UNCHANGED <<enrich_result, full_result>>
    /\ UNCHANGED <<subtitle_chunks, chunk_files, op, seg_chunks, db_chunks,
                   sub_result, enriched_chunks, updated_chunks, store_at_call,
                   files_at_call, stages, applied, write_failed>>
    /\ UNCHANGED notPipeVars

\* enrich_chunks_parallel on the chunks for enrichment, kinds[j] being how
\* the generation of chunk j's fields ended: it raises without an API key
\* (the stage returns False) and otherwise returns the enriched chunks in
\* the order of its input.
EnrichChunks(kinds) ==
    /\ ppc = "enrich"
    /\ IF ~api_key
       THEN /\ EnrichStageReturn("False")
            /\ UNCHANGED <<enriched_chunks, loop_i, updated_chunks>>
       ELSE /\ enriched_chunks' =
                  LET cfe == ChunksForEnrichment(op, loaded_chunks)
                  IN [j \in DOMAIN cfe |-> EnrichedChunk(cfe[j], kinds[j])]
            /\ ppc' = "update"
            /\ loop_i' = 1
            /\ updated_chunks' = <<>>
            /\ UNCHANGED <<enrich_result, full_result>>
    /\ UNCHANGED <<subtitle_chunks, chunk_files, op, seg_chunks, db_chunks,
                   sub_result, loaded_chunks, store_faults, store_at_call,
                   files_at_call, stages, applied, write_failed>>
    /\ UNCHANGED notPipeVars

\* 'chunk_id': i + 1 of enriched_with_ids (process_ai_enrichment_only), or
\* the chunk_id carried by the enriched chunk
\* (process_video_all_chunks_ai_enrichment).
TargetId(o, enriched, i) == IF o = "all_chunks" THEN enriched[i].chunk_id ELSE i

\* One UPDATE of the AI fields. bulk_update_ai_fields
\* (process_ai_enrichment_only): an UPDATE that raises ends the loop with
\* None and the stage returns False. update_chunk_ai_fields in the loop of
\* process_video_all_chunks_ai_enrichment: a failed UPDATE is not counted
\* and the loop goes on.
UpdateChunk(ok) ==
    /\ ppc = "update"
    /\ StoreAnswers(ok)
    /\ LET id == TargetId(op, enriched_chunks, loop_i)
           data == UpdateData(enriched_chunks[loop_i])
           found == ok /\ id \in DOMAIN subtitle_chunks
       IN /\ subtitle_chunks' =
                IF ok THEN UpdateRow(subtitle_chunks, id, data) ELSE subtitle_chunks
          /\ updated_chunks' =
                IF found THEN Append(updated_chunks, id) ELSE updated_chunks
          /\ applied' = IF found THEN (id :> data) @@ applied ELSE applied
          /\ write_failed' = (write_failed \/ ~ok)
    /\ IF op # "all_chunks" /\ ~ok
       THEN /\ EnrichStageReturn("False")
            /\ UNCHANGED loop_i
       ELSE IF loop_i < Len(enriched_chunks)
            THEN /\ loop_i' = loop_i + 1
                 /\ UNCHANGED <<ppc, enrich_result, full_result>>
            ELSE /\ UNCHANGED loop_i
                 /\ EnrichStageReturn(
                        IF op = "all_chunks"
                        THEN AllChunksResult(Len(updated_chunks'),
                                             Len(enriched_chunks))
                        ELSE BulkUpdateResult(updated_chunks'))
    /\ UNCHANGED <<chunk_files, op, seg_chunks, db_chunks, sub_result,
                   loaded_chunks, enriched_chunks, store_at_call, files_at_call,
                   stages>>
    /\ UNCHANGED notPipeVars

(***************************************************************************)
(* The word-bounded segmenter: _split_into_sentences and _chunk_by_words   *)
(* (backend/subtitles/extractor.py), split_into_sentences and              *)
(* chunk_by_words (backend/text_chunker_v2.py). A text is a sequence of    *)
(* tokens: the word k of the input is the token k, a space is the token 0. *)
(***************************************************************************)
Space == 0

\* str.split(): the words of a text.
Split(text) == SelectSeq(text, LAMBDA t : t # Space)

RECURSIVE Join(_)
\* ' '.join(strs)
Join(strs) ==
    IF strs = <<>> THEN <<>>
    ELSE IF Len(strs) = 1 THEN strs[1]
    ELSE strs[1] \o <<Space>> \o Join(Tail(strs))

\* len(text.split()) / count_words(text)
CountWords(text) == Len(Split(text))

\* The text of the words 1..n, `spaces` spaces after each word.
InputText(n, spaces) ==
    [k \in 1..(n * (spaces + 1)) |->
        IF (k - 1) % (spaces + 1) = 0 THEN ((k - 1) \div (spaces + 1)) + 1 ELSE Space]

\* _split_into_sentences(text, words_per_segment) / split_into_sentences:
\* the words in groups of `size`, each group joined by single spaces.
SplitIntoSentences(text, size) ==
    LET words == Split(text)
        cnt == (Len(words) + size - 1) \div size
    IN [j \in 1..cnt |->
          Join([k \in 1..(IF j * size <= Len(words) THEN size
                          ELSE Len(words) - (j - 1) * size) |->
                    <<words[(j - 1) * size + k]>>])]

\* current_chunk_sentences[-5:]
overlap_lookback == 5

\* The sentences of a chunk the overlap loop walks through (backwards):
\* all of them in _chunk_by_words, the last five in chunk_by_words.
OverlapCandidates(impl, chunk) ==
    IF impl = "v2" /\ Len(chunk) > overlap_lookback
    THEN SubSeq(chunk, Len(chunk) - overlap_lookback + 1, Len(chunk))
    ELSE chunk

\* Mutant of OverlapFits: a sentence is taken while the overlap gathered so
\* far is within overlap_words.
OverlapFitsBefore(overlap_count, s_words, overlap_words) ==
    overlap_count <= overlap_words

\* "if overlap_count + s_words <= overlap_words:"
OverlapFits(overlap_count, s_words, overlap_words) ==
    overlap_count + s_words <= overlap_words

RECURSIVE OverlapLoop(_, _, _, _)
\* "for s in reversed(current_chunk): ... insert(0, s) ... else: break",
\* k being the index of s and acc the overlap_sentences gathered so far.
OverlapLoop(chunk, k, acc, overlap_words) ==
    IF k = 0
    THEN acc
    ELSE IF OverlapFits(CountWords(Join(acc)), CountWords(chunk[k]), overlap_words)
         THEN OverlapLoop(chunk, k - 1, <<chunk[k]>> \o acc, overlap_words)
         ELSE acc

\* overlap_sentences after a chunk was saved.
OverlapSentences(impl, chunk, overlap_words) ==
    LET cand == OverlapCandidates(impl, chunk)
    IN IF impl = "v2" /\ ~(overlap_words > 0 /\ chunk # <<>>)
       THEN <<>>
       ELSE OverlapLoop(cand, Len(cand), <<>>, overlap_words)

\* chunks.append({...}) of the current chunk; chunk_by_words numbers its
\* chunks (chunk_id is the number of chunks appended before).
SaveChunk(impl, chs, cur, cnt) ==
    Append(chs,
           IF impl = "v2"
           THEN [chunk_id |-> Len(chs), text |-> Join(cur), word_count |-> cnt,
                 sentence_count |-> Len(cur)]
           ELSE [text |-> Join(cur), word_count |-> cnt,
                 sentence_count |-> Len(cur)])

\* The loop state after a chunk was saved and the next one seeded with the
\* overlap.
SaveAndSeed(impl, st, par) ==
    LET ov == OverlapSentences(impl, st.cur, par.overlap_words)
    IN [chs |-> SaveChunk(impl, st.chs, st.cur, st.cnt),
        cur |-> ov,
        cnt |-> CountWords(Join(ov))]

\* One turn of the for-loop of _chunk_by_words on `sentence`.
ExtractorTurn(st, sentence, par) ==
    LET sentence_words == CountWords(sentence)
        s1 == IF st.cnt + sentence_words > par.max_words /\ st.cur # <<>>
              THEN SaveAndSeed("extractor", st, par)
              ELSE st
        s2 == [chs |-> s1.chs,
               cur |-> Append(s1.cur, sentence),
               cnt |-> s1.cnt + sentence_words]
    IN IF s2.cnt >= par.target_words
       THEN SaveAndSeed("extractor", s2, par)
       ELSE s2

\* One turn of the for-loop of chunk_by_words on `sentence`.
V2Turn(st, sentence, par) ==
    LET sentence_words == CountWords(sentence)
        would_exceed_max == st.cnt + sentence_words > par.max_words
        should_split == st.cnt >= par.target_words /\ st.cur # <<>>
        s1 == IF would_exceed_max \/ (should_split /\ st.cnt > 0)
              THEN SaveAndSeed("v2", st, par)
              ELSE st
    IN [chs |-> s1.chs,
        cur |-> Append(s1.cur, sentence),
        cnt |-> s1.cnt + sentence_words]

\* Mutant of MergeIntoLast: the merged chunk keeps the word count of the
\* chunk it replaces.
MergeKeepsLastCount(impl, chs, cur) ==
    LET last == chs[Len(chs)]
    IN [chs EXCEPT ![Len(chs)] =
            [last EXCEPT !.text = last.text \o <<Space>> \o Join(cur),
                         !.sentence_count = last.sentence_count + Len(cur)]]

\* chunks[-1] replaced by its merge with the trailing chunk.
MergeIntoLast(impl, chs, cur) ==
    LET last == chs[Len(chs)]
        merged_text == last.text \o <<Space>> \o Join(cur)
        merged == [text |-> merged_text,
                   word_count |-> CountWords(merged_text),
                   sentence_count |-> last.sentence_count + Len(cur)]
    IN [chs EXCEPT ![Len(chs)] =
            IF impl = "v2" THEN merged @@ [chunk_id |-> last.chunk_id] ELSE merged]

\* "Handle final chunk": the chunks list returned.
FinalChunks(impl, st, par) ==
    IF st.cur = <<>>
    THEN st.chs
    ELSE IF impl = "v2"
         THEN IF st.cnt < par.min_final_words /\ Len(st.chs) > 0
              THEN MergeIntoLast(impl, st.chs, st.cur)
              ELSE SaveChunk(impl, st.chs, st.cur, st.cnt)
         ELSE IF st.cnt >= par.min_final_words \/ st.chs = <<>>
              THEN SaveChunk(impl, st.chs, st.cur, st.cnt)
              ELSE MergeIntoLast(impl, st.chs, st.cur)

\* The segmenter `impl` is about to be called on `text` with `par`.
SegIdle(impl, text, par) ==
    /\ seg_impl = impl
    /\ seg_text = text
    /\ seg_params = par
    /\ seg_pc = "start"
    /\ sentences = <<>>
    /\ sent_i = 1
    /\ word_chunks = <<>>
    /\ current_chunk = <<>>
    /\ current_word_count = 0

\* The parameters of a run that is never started.
NoParams == [target_words |-> 1, max_words |-> 1, overlap_words |-> 0,
             min_final_words |-> 0, words_per_segment |-> 1]

\* The call: the text is split into pseudo-sentences; chunk_by_words
\* returns [] when there is none.
SplitText ==
    /\ seg_pc = "start"
    /\ sentences' = SplitIntoSentences(seg_text, seg_params.words_per_segment)
    /\ seg_pc' = IF sentences' = <<>>
                 THEN (IF seg_impl = "v2" THEN "returned" ELSE "final")
                 ELSE "loop"
    /\ UNCHANGED <<seg_impl, seg_text, seg_params, sent_i, word_chunks,
                   current_chunk, current_word_count>>
    /\ UNCHANGED notSegVars

\* One turn of the for-loop over the sentences.
ChunkTurn ==
    /\ seg_pc = "loop"
    /\ LET st == [chs |-> word_chunks, cur |-> current_chunk,
                  cnt |-> current_word_count]
           nx == IF seg_impl = "v2"
                 THEN V2Turn(st, sentences[sent_i], seg_params)
                 ELSE ExtractorTurn(st, sentences[sent_i], seg_params)
       IN /\ word_chunks' = nx.chs
          /\ current_chunk' = nx.cur
          /\ current_word_count' = nx.cnt
    /\ sent_i' = sent_i + 1
    /\ seg_pc' = IF sent_i = Len(sentences) THEN "final" ELSE "loop"
    /\ UNCHANGED <<seg_impl, seg_text, seg_params, sentences>>
    /\ UNCHANGED notSegVars

\* The final chunk is saved or merged and the chunks are returned.
ChunkFinal ==
    /\ seg_pc = "final"
    /\ word_chunks' = FinalChunks(seg_impl,
                                  [chs |-> word_chunks, cur |-> current_chunk,
                                   cnt |-> current_word_count],
                                  seg_params)
    /\ seg_pc' = "returned"
    /\ UNCHANGED <<seg_impl, seg_text, seg_params, sentences, sent_i,
                   current_chunk, current_word_count>>
    /\ UNCHANGED notSegVars

(***************************************************************************)
(* The duration-bounded segmenter: _chunk_by_duration                      *)
(* (backend/subtitles/extractor.py). Times are whole seconds; the text of  *)
(* an entry is a text of the word-bounded segmenter.                       *)
(***************************************************************************)
\* entries[-1]['end']
VideoEnd(es) == es[Len(es)].end

\* min(a, b)
Min(a, b) == IF a <= b THEN a ELSE b

\* chunk_start of the chunk_num-th interval (0 for the first).
ChunkStart(num, par) ==
    IF num = 1 THEN 0 ELSE (num - 1) * par.target_duration

\* chunk_end of the chunk_num-th interval, cut at the end of the video.
ChunkEnd(num, par, es) ==
    Min(ChunkStart(num, par) + par.target_duration + par.overlap_duration,
        VideoEnd(es))

\* "if entry['start'] < chunk_end and entry['end'] > chunk_start"
OverlapsRange(entry, chunk_start, chunk_end) ==
    entry.start < chunk_end /\ entry.end > chunk_start

\* chunk_entries: the entries that overlap the time range, in order.
ChunkEntries(es, chunk_start, chunk_end) ==
    SelectSeq(es, LAMBDA e : OverlapsRange(e, chunk_start, chunk_end))

\* ' '.join([e['text'] for e in chunk_entries])
EntriesText(ces) == Join([i \in 1..Len(ces) |-> ces[i].text])

\* chunks[-1] after the last, too short interval was merged into it.
MergeDuration(chs, ces, chunk_end) ==
    LET last == chs[Len(chs)]
        text == last.text \o <<Space>> \o EntriesText(ces)
    IN [chs EXCEPT ![Len(chs)] =
            [text |-> text,
             word_count |-> CountWords(text),
             sentence_count |-> last.sentence_count + Len(ces),
             start_time |-> last.start_time,
             end_time |-> chunk_end,
             duration |-> chunk_end - last.start_time]]

\* chunks after one turn of the while-loop for the interval `num`.
DurationChunks(chs, num, par, es) ==
    LET chunk_start == ChunkStart(num, par)
        chunk_end == ChunkEnd(num, par, es)
        ces == ChunkEntries(es, chunk_start, chunk_end)
        actual_duration == chunk_end - chunk_start
        is_last == chunk_end >= VideoEnd(es)
    IN IF ces = <<>>
       THEN chs
       ELSE IF is_last /\ actual_duration < par.min_final_duration /\ chs # <<>>
            THEN MergeDuration(chs, ces, chunk_end)
            ELSE Append(chs,
                        [text |-> EntriesText(ces),
                         word_count |-> CountWords(EntriesText(ces)),
                         sentence_count |-> Len(ces),
                         start_time |-> chunk_start,
                         end_time |-> chunk_end,
                         duration |-> actual_duration])

\* _chunk_by_duration is about to be called on `es` with `par`.
DurIdle(es, par) ==
    /\ entries = es
    /\ dur_params = par
    /\ dur_pc = "start"
    /\ dur_chunks = <<>>
    /\ chunk_num = 0
    /\ current_start = 0

\* The parameters of a run that is never started.
NoDurParams == [target_duration |-> 1, overlap_duration |-> 0,
                min_final_duration |-> 0]

\* The call: [] is returned when there is no entry.
DurationCall ==
    /\ dur_pc = "start"
    /\ dur_pc' = IF entries = <<>> THEN "returned" ELSE "loop"
    /\ UNCHANGED <<entries, dur_params, dur_chunks, chunk_num, current_start>>
    /\ UNCHANGED notDurVars

\* One turn of "while current_start < video_end".
DurationTurn ==
    /\ dur_pc = "loop"
    /\ current_start < VideoEnd(entries)
    /\ chunk_num' = chunk_num + 1
    /\ dur_chunks' = DurationChunks(dur_chunks, chunk_num', dur_params, entries)
    /\ current_start' = chunk_num' * dur_params.target_duration
    /\ UNCHANGED <<entries, dur_params, dur_pc>>
    /\ UNCHANGED notDurVars

\* The loop is over: chunks is returned.
DurationReturn ==
    /\ dur_pc = "loop"
    /\ ~(current_start < VideoEnd(entries))
    /\ dur_pc' = "returned"
    /\ UNCHANGED <<entries, dur_params, dur_chunks, chunk_num, current_start>>
    /\ UNCHANGED notDurVars

(***************************************************************************)
(* Specifications.                                                         *)
(***************************************************************************)
\* Largest number of chunks in the list given to enrich_chunks_parallel.
MaxChunks == 2

\* Rate-limit and error answers the collaborator gives during one
\* enrich_chunks_parallel call of SpecEnrich.
MaxFaults == 4

\* A book of up to NumChapters chapters; nothing is being enriched.
Init ==
    /\ \E n \in 0..NumChapters : ReorderIdle(n)
    /\ EnrichIdle
    /\ EnricherIdle
    /\ PipeIdle({})
    /\ SegIdle("extractor", <<>>, NoParams)
    /\ DurIdle(<<>>, NoDurParams)
    /\ api_key = TRUE

\* One reorder request at a time: the single-threaded use of the Reindexer.
Next ==
    \/ \E order \in OrderInputs : Call("c1", order)
    \/ Select("c1")
    \/ PhaseAWrite("c1")
    \/ PhaseBWrite("c1")
    \/ StoreFailure("c1")

Spec == Init /\ [][Next]_vars

\* The chapter_order arguments that are permutations of the positions 1..n.
PermutationInputs(n) ==
    {order \in [1..n -> 1..n] : \A p \in 1..n : \E i \in 1..n : order[i] = p}

\* Two requests in flight on the same book: the endpoint is async and takes
\* no lock, so the store calls of the two reorder_chapters runs interleave.
\* Each caller asks for a permutation of the book's positions; the store
\* answers every request.
NextConcurrent ==
    \E c \in Callers :
        \/ \E order \in PermutationInputs(Len(book_chapters)) : Call(c, order)
        \/ Select(c)
        \/ PhaseAWrite(c)
        \/ PhaseBWrite(c)

SpecConcurrent == Init /\ [][NextConcurrent]_vars

\* The environment of an enrichment run: the API key is set or not.
InitEnrich ==
    /\ ReorderIdle(0)
    /\ EnrichIdle
    /\ EnricherIdle
    /\ PipeIdle({})
    /\ SegIdle("extractor", <<>>, NoParams)
    /\ DurIdle(<<>>, NoDurParams)
    /\ api_key \in BOOLEAN

\* enrich_chunks_parallel on a list of up to MaxChunks chunks, the
\* collaborator failing at most MaxFaults times.
NextEnrich ==
    \/ \E n \in 0..MaxChunks, ct \in ContentTypes, W \in 1..MaxChunks :
            EnrichCall(n, ct, W, MaxFaults)
    \/ \E i \in DOMAIN wpc : StartChunk(i)
    \/ \E i \in DOMAIN wpc, f \in Fields : FieldCompletion(i, f)
    \/ \E i \in DOMAIN wpc, f \in Fields : FieldRateLimited(i, f)
    \/ \E i \in DOMAIN wpc, f \in Fields : FieldError(i, f)
    \/ \E i \in DOMAIN wpc : FinishChunk(i)
    \/ EnrichReturn

SpecEnrich == InitEnrich /\ [][NextEnrich]_vars

\* enrich_chunk on one chunk, the collaborator free to fail every call.
NextField ==
    \/ \E ct \in ContentTypes :
            EnrichCall(1, ct, 1, Cardinality(Fields) * (max_retries + 1))
    \/ \E i \in DOMAIN wpc : StartChunk(i)
    \/ \E i \in DOMAIN wpc, f \in Fields : FieldCompletion(i, f)
    \/ \E i \in DOMAIN wpc, f \in Fields : FieldRateLimited(i, f)
    \/ \E i \in DOMAIN wpc, f \in Fields : FieldError(i, f)
    \/ \E i \in DOMAIN wpc : FinishChunk(i)
    \/ EnrichReturn

SpecField == InitEnrich /\ [][NextField]_vars

\* One turn of the while loop of process_field for field f of the chunk.
FieldStep(i, f) ==
    FieldCompletion(i, f) \/ FieldRateLimited(i, f) \/ FieldError(i, f)

\* SpecField with the scheduling the thread pools give: a submitted chunk is
\* started, every call made by a process_field thread is answered (and the
\* sleep after a rate-limit ends), finished futures are collected.
SpecFieldFair ==
    /\ SpecField
    /\ WF_vars(StartChunk(1))
    /\ \A f \in Fields : WF_vars(FieldStep(1, f))
    /\ WF_vars(FinishChunk(1))
    /\ WF_vars(EnrichReturn)

\* enrich_chunk_with_ai on one chunk, the collaborator free to fail every
\* call.
NextEnricher ==
    \/ EnricherCall
    \/ CallOpenaiCompletion
    \/ CallOpenaiRateLimited
    \/ CallOpenaiError

\* The two clients of the generative service, one of them exercised in a
\* behaviour: enrich_chunk (orchestrator) or enrich_chunk_with_ai
\* (background worker). They share nothing but the environment.
NextClients ==
    \/ (ce_pc = "idle" /\ NextField)
    \/ (epc = "idle" /\ NextEnricher)

SpecClients == InitEnrich /\ [][NextClients]_vars

\* Largest number of chunks stored for the video and emitted by the segmenter.
MaxSegments == 3

\* Store and storage calls that fail during one orchestrator call.
MaxStoreFaults == 1

\* The orchestrator functions the API starts for a video.
Ops == {"subtitles_only", "enrichment_only", "full", "all_chunks"}

\* The video holds chunks at any positions: 1..n after a run, with gaps
\* after a chunk was skipped at insert or deleted on its own.
InitPipeline ==
    /\ ReorderIdle(0)
    /\ EnrichIdle
    /\ EnricherIdle
    /\ api_key \in BOOLEAN
    /\ \E S \in SUBSET (1..MaxSegments) : PipeIdle(S)
    /\ SegIdle("extractor", <<>>, NoParams)
    /\ DurIdle(<<>>, NoDurParams)

\* One orchestrator call on the video, up to MaxStoreFaults of its store and
\* storage calls failing.
NextPipeline ==
    \/ \E o \in Ops : PipelineCall(o, MaxStoreFaults)
    \/ \E ok \in BOOLEAN : DeleteFiles(ok)
    \/ \E ok \in BOOLEAN : DeleteRows(ok)
    \/ \E n \in 0..MaxSegments : Segment(n)
    \/ \E ok \in BOOLEAN : UploadChunk(ok)
    \/ \E ok \in BOOLEAN : UpsertChunks(ok)
    \/ \E ok \in BOOLEAN : SelectChunks(ok)
    \/ \E ok \in BOOLEAN : DownloadChunk(ok)
    \/ \E kinds \in [1..MaxSegments -> Kinds] : EnrichChunks(kinds)
    \/ \E ok \in BOOLEAN : UpdateChunk(ok)

SpecPipeline == InitPipeline /\ [][NextPipeline]_vars

\* Largest number of words of the text given to the segmenter.
MaxTextWords == 6

\* Largest number of words of a pseudo-sentence (40 in the code).
MaxSentenceWords == 2

\* Largest value of target_words, max_words, overlap_words and
\* min_final_words.
MaxParam == 4

\* The parameter sets of the segmenter.
SegParams ==
    [target_words      : 1..MaxParam,
     max_words         : 1..MaxParam,
     overlap_words     : 0..MaxParam,
     min_final_words   : 0..MaxParam,
     words_per_segment : 1..MaxSentenceWords]

\* Any text of up to MaxTextWords words with any parameters, for either
\* implementation.
InitSegmenter ==
    /\ ReorderIdle(0)
    /\ EnrichIdle
    /\ EnricherIdle
    /\ PipeIdle({})
    /\ api_key = TRUE
    /\ \E impl \in {"extractor", "v2"}, n \in 0..MaxTextWords, spaces \in 1..2,
          par \in SegParams :
            SegIdle(impl, InputText(n, spaces), par)
    /\ DurIdle(<<>>, NoDurParams)

NextSegmenter ==
    \/ SplitText
    \/ ChunkTurn
    \/ ChunkFinal

SpecSegmenter == InitSegmenter /\ [][NextSegmenter]_vars

\* The parameters extract_and_chunk_subtitles passes by default, with the
\* 40-word pseudo-sentences of _split_into_sentences.
DefaultParams ==
    [target_words |-> 1000, max_words |-> 1500, overlap_words |-> 100,
     min_final_words |-> 500, words_per_segment |-> 40]

\* A transcript of 2,050 words segmented with the default parameters, by
\* either implementation.
InitScenario ==
    /\ ReorderIdle(0)
    /\ EnrichIdle
    /\ EnricherIdle
    /\ PipeIdle({})
    /\ api_key = TRUE
    /\ \E impl \in {"extractor", "v2"}, spaces \in 1..2 :
            SegIdle(impl, InputText(2050, spaces), DefaultParams)
    /\ DurIdle(<<>>, NoDurParams)

SpecScenario == InitScenario /\ [][NextSegmenter]_vars

\* Largest end time, in seconds, of a caption entry.
MaxVideoTime == 6

\* Largest value of target_duration and min_final_duration.
MaxDuration == 3

RECURSIVE EntriesOf(_, _)
\* The entries whose start and end times are the cut points of `cuts`,
\* taken in pairs in increasing order; the k-th entry says the word k.
EntriesOf(cuts, k) ==
    IF Cardinality(cuts) < 2
    THEN <<>>
    ELSE LET a == CHOOSE t \in cuts : \A u \in cuts : t <= u
             b == CHOOSE t \in cuts \ {a} : \A u \in cuts \ {a} : t <= u
         IN <<[start |-> a, end |-> b, text |-> <<k>>]>>
              \o EntriesOf(cuts \ {a, b}, k + 1)

\* The parameter sets of _chunk_by_duration (max_duration is not read).
DurParams ==
    [target_duration    : 1..MaxDuration,
     overlap_duration   : 0..1,
     min_final_duration : 0..MaxDuration]

\* Any list of caption entries that follow one another in time, dense or
\* with silences between them, with any parameters.
InitDuration ==
    /\ ReorderIdle(0)
    /\ EnrichIdle
    /\ EnricherIdle
    /\ PipeIdle({})
    /\ api_key = TRUE
    /\ SegIdle("extractor", <<>>, NoParams)
    /\ \E cuts \in SUBSET (0..MaxVideoTime), par \in DurParams :
            /\ Cardinality(cuts) % 2 = 0
            /\ DurIdle(EntriesOf(cuts, 1), par)

NextDuration ==
    \/ DurationCall
    \/ DurationTurn
    \/ DurationReturn

SpecDuration == InitDuration /\ [][NextDuration]_vars

(***************************************************************************)
(* Properties of reorder_chapters.                                         *)
(***************************************************************************)
\* The table create_chapter built before any reorder: chapter i at position i.
InitialTable == [i \in 1..Len(book_chapters) |-> NewChapter(i)]

\* order is a permutation of the positions 1..N the book held at the call.
IsPermutation(order) ==
    /\ Len(order) = Len(book_chapters)
    /\ {order[i] : i \in 1..Len(order)} = 1..Len(book_chapters)

\* The row holding the text that was stored at position p before the reorder.
RowOfOldPosition(p) ==
    CHOOSE r \in DOMAIN book_chapters :
        book_chapters[r].chapter_text_path = NewChapter(p).chapter_text_path

\* A row without its position and timestamp.
Content(row) ==
    [chapter_title     |-> row.chapter_title,
     chapter_text_path |-> row.chapter_text_path,
     ai_field_1        |-> row.ai_field_1,
     ai_field_2        |-> row.ai_field_2,
     ai_field_3        |-> row.ai_field_3,
     note_content      |-> row.note_content]

C2_NoDuplicateDuringReorder ==
    \A c \in Callers :
        (IsPermutation(chapter_order[c]) /\ pc[c] \in {"phaseA", "phaseB", "returned"})
        => /\ ~HasDuplicate(book_chapters)
           /\ Cardinality(Positions(book_chapters)) = Len(book_chapters)
           /\ error[c] # "duplicate_key"

\* C2 witness: a store failure in the middle of phase B of order [3, 1, 2].
C2_Witness ==
    /\ pc["c1"] = "returned" /\ error["c1"] = "store_failure"
    /\ chapter_order["c1"] = <<3, 1, 2>>
    /\ Len(book_chapters) = 3
    /\ writes["c1"] = 4
    /\ Positions(book_chapters) = {1, -2, -3}

C4_UnknownPositionRejected ==
    \A c \in Callers :
        (pc[c] # "idle"
            /\ \E i \in 1..Len(chapter_order[c]) :
                    chapter_order[c][i] \notin 1..Len(book_chapters))
        => /\ pc[c] \in {"select", "returned"}
           /\ pc[c] = "returned" => result[c] = "False"
           /\ writes[c] = 0
           /\ book_chapters = InitialTable

\* C4 witness: [1, 4, 2] on a book of 3 chapters was rejected by the check.
C4_Witness ==
    /\ pc["c1"] = "returned" /\ result["c1"] = "False"
    /\ error["c1"] = "invalid_chapter_id"
    /\ chapter_order["c1"] = <<1, 4, 2>>
    /\ Len(book_chapters) = 3

\* C5: a chapter_order that is not exactly a permutation of the current
\* positions (a repeat, an omission, another length) makes reorder_chapters
\* fail before any write, every position unchanged.
C5_NonPermutationRejected ==
    \A c \in Callers :
        (pc[c] # "idle" /\ ~IsPermutation(chapter_order[c]))
        => /\ pc[c] = "returned" => result[c] = "False"
           /\ writes[c] = 0
           /\ book_chapters = InitialTable

\* C6: a reorder changes chapter_id and updated_at only: every row keeps
\* its chapter_text_path, title, AI fields and note in every state, so
\* after a successful reorder of a permutation the text reachable at
\* position i is the text that was at position chapter_order[i].
C6_ReorderKeepsContent ==
    /\ \A r \in DOMAIN book_chapters :
            Content(book_chapters[r]) = Content(NewChapter(r))
    /\ \A c \in Callers :
        (pc[c] = "returned" /\ result[c] = "True" /\ IsPermutation(chapter_order[c]))
        => \A i \in 1..Len(chapter_order[c]) :
              \E r \in DOMAIN book_chapters :
                 /\ book_chapters[r].chapter_id = i
                 /\ book_chapters[r].chapter_text_path
                        = NewChapter(chapter_order[c][i]).chapter_text_path

\* C6 witness: [2, 3, 1] has been applied and every row carries the new
\* timestamp.
C6_Witness ==
    /\ pc["c1"] = "returned" /\ result["c1"] = "True"
    /\ chapter_order["c1"] = <<2, 3, 1>>
    /\ \A r \in DOMAIN book_chapters : book_chapters[r].updated_at = "NOW()"
    /\ Len(book_chapters) = 3
    /\ book_chapters[2].chapter_id = 1

\* The caller's chapter_order is a permutation of the positions its SELECT
\* read, and its checks are passed.
ReadPermutation(c) ==
    /\ pc[c] \in {"phaseA", "phaseB", "returned"}
    /\ Len(chapter_order[c]) = Cardinality(chapters[c])
    /\ {chapter_order[c][i] : i \in 1..Len(chapter_order[c])} = chapters[c]

\* C26: when two reorder_chapters calls on the same book interleave their
\* store writes, each with a permutation of the positions it read, no two
\* chapters ever hold the same position, no write is rejected for a
\* duplicate position, and once both calls are over the positions are
\* exactly 1..N.
C26_ConcurrentReordersNeedNoLock ==
    (\A c \in Callers : ReadPermutation(c)) =>
        /\ ~HasDuplicate(book_chapters)
        /\ \A c \in Callers : error[c] # "duplicate_key"
        /\ (\A c \in Callers : pc[c] = "returned")
                => Positions(book_chapters) = 1..Len(book_chapters)

\* C28: when reorder_chapters returns False, whatever the reason (a store
\* write failing in the middle of phase A or phase B included), every
\* chapter holds the position it had before the call: none is left at a
\* negative temporary position.
C28_FailedReorderChangesNothing ==
    \A c \in Callers :
        (pc[c] = "returned" /\ result[c] = "False")
            => \A r \in DOMAIN book_chapters :
                    book_chapters[r].chapter_id = InitialTable[r].chapter_id

(***************************************************************************)
(* Properties of enrich_chunks_parallel, enrich_chunk and process_field.   *)
(***************************************************************************)
\* What the collaborator's last answer for field f of the i-th input chunk
\* amounts to: the completion for that chunk's text and that field, without
\* the surrounding whitespace, or the sentinel of the failure.
ExpectedValue(i, f) ==
    IF ~prompts[f] THEN <<>>
    ELSE CASE last_response[i][f] = "ok" ->
                <<Word(<<"generated", ChunkDict(i).text, f>>)>>
           [] last_response[i][f] = "rate_limit" -> <<Word(<<"[Rate limit exceeded]">>)>>
           [] last_response[i][f] = "error" ->
                <<Word(<<"[Error: ">>), Word(<<"e">>), Word(<<"]">>)>>
           [] OTHER -> <<Word(<<"no answer">>)>>

\* Generation of field f of chunk i has failed.
FieldFailed(i, f) ==
    /\ i \in DOMAIN fpc
    /\ fpc[i][f] # "running"
    /\ last_response[i][f] \in {"rate_limit", "error"}

\* C7: whatever the order in which the process_chunk tasks complete, the
\* list enrich_chunks_parallel returns has the length of the input and its
\* i-th element is the i-th input chunk merged with the four fields
\* generated from that chunk's text; with the API key set it does return.
C7_OutputInInputOrder ==
    /\ epc = "raised" => ~api_key
    /\ epc = "returned" =>
        /\ Len(output) = Len(chunks)
        /\ \A i \in 1..Len(chunks) :
            /\ DOMAIN output[i] = DOMAIN ChunkDict(i) \cup Fields
            /\ output[i].text = ChunkDict(i).text
            /\ output[i].word_count = ChunkDict(i).word_count
            /\ \A f \in Fields : output[i][f] = ExpectedValue(i, f)

\* C7 witness: the second chunk completed before the first, and the list
\* was returned.
C7_Witness ==
    /\ epc = "returned"
    /\ Len(chunks) = 2
    /\ results_dict[1][1] = 2
    /\ results_dict[2][1] = 1
    /\ output[1].text = ChunkDict(1).text

\* C8: when generation of a field of a chunk has failed (retries exhausted
\* or another error), no task raises, the call returns an entry for every
\* input chunk, the failed field holds the sentinel of its failure and
\* every other field of every chunk holds what its own generation produced.
C8_FieldFailureIsAbsorbed ==
    \A i \in DOMAIN fpc : \A f \in Fields :
        FieldFailed(i, f) =>
            /\ epc # "raised"
            /\ \A j \in DOMAIN wpc :
                    wpc[j] # "raised" /\ \A g \in Fields : fpc[j][g] # "raised"
            /\ epc = "returned" =>
                /\ Len(output) = Len(chunks)
                /\ output[i][f] \in {<<Word(<<"[Rate limit exceeded]">>)>>,
                                     <<Word(<<"[Error: ">>), Word(<<"e">>), Word(<<"]">>)>>}
                /\ \A j \in 1..Len(chunks) : \A g \in Fields :
                        output[j][g] = ExpectedValue(j, g)

\* C8 witness: the title of the second of two chunks ran out of retries,
\* the call returned, and the first chunk has its generated title.
C8_Witness ==
    /\ epc = "returned"
    /\ Len(chunks) = 2
    /\ last_response[2]["title"] = "rate_limit"
    /\ output[2]["title"] = RateLimitValue
    /\ last_response[1]["title"] = "ok"
    /\ last_response[2]["field_1"] = "ok"

\* C9: process_field calls again while the call is rate-limited, with at
\* most max_retries retries after the first call; a call that succeeds
\* within that budget has its text returned; max_retries + 1 rate-limited
\* calls yield the sentinel "[Rate limit exceeded]"; nothing is raised.
C9_RetryWhileRateLimited ==
    \A i \in DOMAIN fpc : \A f \in Fields :
        /\ fpc[i][f] # "raised"
        /\ fpc[i][f] = "running" =>
              /\ attempts[i][f] = retries[i][f]
              /\ retries[i][f] <= max_retries
              /\ last_response[i][f] \in {"none", "rate_limit"}
        /\ (last_response[i][f] = "rate_limit" /\ attempts[i][f] <= max_retries)
              => fpc[i][f] = "running"
        /\ (fpc[i][f] = "done" /\ last_response[i][f] = "ok") =>
              /\ results[i][f] = <<Word(<<"generated", ChunkDict(i).text, f>>)>>
              /\ attempts[i][f] = retries[i][f] + 1
              /\ attempts[i][f] <= max_retries + 1
        /\ (fpc[i][f] = "done" /\ last_response[i][f] = "rate_limit") =>
              /\ results[i][f] = <<Word(<<"[Rate limit exceeded]">>)>>
              /\ attempts[i][f] = max_retries + 1

\* C9 witness: field_1 was rate-limited on all 4 calls and holds the
\* sentinel; field_2 succeeded on its third call.
C9_Witness ==
    /\ 1 \in DOMAIN fpc
    /\ fpc[1]["field_1"] = "done" /\ last_response[1]["field_1"] = "rate_limit"
    /\ attempts[1]["field_1"] = 4
    /\ fpc[1]["field_2"] = "done" /\ last_response[1]["field_2"] = "ok"
    /\ attempts[1]["field_2"] = 3

\* C10 as stated: the calls made for one (chunk, field) pair never exceed
\* max_retries.
C10_AttemptsAtMostMaxRetries ==
    \A i \in DOMAIN attempts : \A f \in Fields : attempts[i][f] <= max_retries

\* C10 amended: process_field makes at most max_retries + 1 calls for one
\* (chunk, field) pair (the first call and max_retries retries), and every
\* field generation ends with a value or a sentinel, also when every
\* answer is a rate-limit: a running enrich_chunk call comes to its end,
\* by a return once the API key is set, and at the return every field of
\* the chunk has its value.
C10_BoundedAttemptsAndTermination ==
    /\ [](\A i \in DOMAIN attempts : \A f \in Fields :
                attempts[i][f] <= max_retries + 1)
    /\ [](epc = "raised" => ~api_key)
    /\ [](epc = "returned" =>
            \A i \in DOMAIN fpc : \A f \in Fields :
                fpc[i][f] = "done" /\ f \in DOMAIN results[i])
    /\ (epc = "running") ~> (epc \in {"returned", "raised"})

\* C10 witness: the collaborator rate-limited every call of a video chunk:
\* each of the four fields made max_retries + 1 calls and the call returned.
C10_Witness ==
    /\ epc = "returned"
    /\ \A f \in Fields :
          /\ attempts[1][f] = max_retries + 1
          /\ last_response[1][f] = "rate_limit"
          /\ output[1][f] = RateLimitValue

(***************************************************************************)
(* Properties of the retry loops of the two clients.                       *)
(***************************************************************************)
\* C11: in both clients the wait before the retry that follows the a-th
\* rate-limited attempt (a = 0, 1, ...) is the first wait times 2^a
\* (retry_delay for process_field, initial_wait for call_openai), and the
\* last permitted attempt is followed by no wait.
C11_WaitsDouble ==
    /\ \A i \in DOMAIN waits : \A f \in Fields :
          /\ \A a \in 0..(Len(waits[i][f]) - 1) :
                waits[i][f][a + 1] = retry_delay * Pow2(a)
          /\ Len(waits[i][f]) <= max_retries
    /\ \A k \in DOMAIN wait_times :
          /\ \A a \in 0..(Len(wait_times[k]) - 1) :
                wait_times[k][a + 1] = initial_wait * Pow2(a)
          /\ Len(wait_times[k]) <= call_openai_max_retries - 1

OutstandingCalls ==
    {p \in (DOMAIN fpc) \X Fields : fpc[p[1]][p[2]] = "running"}

\* C13: during enrich_chunks_parallel(max_workers=W) at most W chunks are
\* being processed and at most 4 * W calls are outstanding, all of them of
\* chunks being processed.
C13_BoundedConcurrency ==
    /\ Cardinality({i \in DOMAIN wpc : wpc[i] = "running"}) <= max_workers
    /\ Cardinality(OutstandingCalls) <= 4 * max_workers
    /\ \A p \in OutstandingCalls : wpc[p[1]] = "running"

\* C13 witness: with max_workers = 1 and two chunks submitted, the first is
\* being processed with its four calls outstanding and the second waits.
C13_Witness ==
    /\ epc = "running" /\ max_workers = 1 /\ Len(chunks) = 2
    /\ wpc[1] = "running" /\ wpc[2] = "queued"
    /\ Cardinality(OutstandingCalls) = 4

(***************************************************************************)
(* Properties of the orchestrator.                                         *)
(***************************************************************************)
\* The columns of a row the pipeline's AI fields do not cover.
NonAi(row) == [chunk_text_path |-> row.chunk_text_path,
               note_content    |-> row.note_content]

\* process_video_subtitles_only has returned (in a call of its own).
SubtitlesOnlyReturned ==
    op = "subtitles_only" /\ ppc = "returned" /\ sub_result # <<>>

\* C14: after process_video_subtitles_only returned success with
\* chunk_count = N, the table holds exactly the positions 1..N, position i
\* holding the i-th text of the segmenter with its four AI fields unset
\* (so no row of an earlier run remains).
C14_SubtitlesOnlyFullReplace ==
    (SubtitlesOnlyReturned /\ sub_result[1].success) =>
        LET N == sub_result[1].chunk_count
        IN /\ DOMAIN subtitle_chunks = 1..N
           /\ \A i \in DOMAIN subtitle_chunks :
                /\ subtitle_chunks[i].chunk_text_path \in DOMAIN chunk_files
                /\ chunk_files[subtitle_chunks[i].chunk_text_path] = seg_chunks[i]
                /\ \A col \in AiColumns : subtitle_chunks[i][col] = None

\* C15: when the segmenter yields no chunk, process_video_subtitles_only
\* reports failure and the table and the bucket are as they were at the
\* call.
C15_EmptySegmentationMutatesNothing ==
    (SubtitlesOnlyReturned /\ seg_chunks = <<>>) =>
        /\ ~sub_result[1].success
        /\ subtitle_chunks = store_at_call
        /\ chunk_files = files_at_call

\* C16: process_full_video enters the enrichment stage only after
\* process_video_subtitles_only reported success; after a reported failure
\* it returns False without entering the enrichment stage.
C16_FullShortCircuits ==
    (op = "full" /\ sub_result # <<>>) =>
        IF sub_result[1].success
        THEN TRUE
        ELSE /\ ppc = "returned"
             /\ full_result = "False"
             /\ stages = <<"subtitles">>

\* C17: during process_ai_enrichment_only the table holds the rows it held
\* at the call, each with its text path and note, and the bucket holds the
\* files it held: only AI columns change.
C17_EnrichmentWritesAiFieldsOnly ==
    op = "enrichment_only" =>
        /\ DOMAIN subtitle_chunks = DOMAIN store_at_call
        /\ \A id \in DOMAIN subtitle_chunks :
              NonAi(subtitle_chunks[id]) = NonAi(store_at_call[id])
        /\ chunk_files = files_at_call

\* C17 witness: process_ai_enrichment_only returned True on two stored
\* chunks, whose AI fields it has replaced.
C17_Witness ==
    /\ op = "enrichment_only" /\ ppc = "returned" /\ enrich_result = "True"
    /\ DOMAIN subtitle_chunks = {1, 2}
    /\ \A id \in {1, 2} :
          subtitle_chunks[id].ai_field_1 # store_at_call[id].ai_field_1

C27_FieldsWrittenToTheirSegment ==
    op \in {"enrichment_only", "full"} =>
        \A p \in DOMAIN applied :
            \A j \in DOMAIN enriched_chunks :
                (TargetId(op, enriched_chunks, j) = p
                    /\ applied[p] = UpdateData(enriched_chunks[j]))
                => /\ loaded_chunks[j].chunk_id = p
                   /\ enriched_chunks[j].text = chunk_files[p]

\* A column value that is a successfully generated field: set, and not one
\* of the strings process_field returns when the generation failed.
GeneratedValue(v) ==
    /\ v # None
    /\ v # EmptyValue
    /\ v # RateLimitValue
    /\ v # OnException.value

\* C30: after process_ai_enrichment_only, is_chunk_processed reports a
\* segment as processed only if each of its four AI fields holds a
\* successfully generated value, and get_processing_progress counts in
\* unprocessed_chunks every segment with a field whose generation failed.
C30_ProcessedMeansGenerated ==
    (op = "enrichment_only" /\ ppc = "returned") =>
        /\ \A p \in DOMAIN subtitle_chunks :
                IsChunkProcessed(subtitle_chunks[p])
                    => \A col \in AiColumns :
                            GeneratedValue(subtitle_chunks[p][col])
        /\ GetProcessingProgress(subtitle_chunks).unprocessed_chunks
              = Cardinality({p \in DOMAIN subtitle_chunks :
                                \E col \in AiColumns :
                                    ~GeneratedValue(subtitle_chunks[p][col])})

(***************************************************************************)
(* Properties of the word-bounded segmenter.                               *)
(***************************************************************************)
\* The words of the i-th emitted segment.
SegWords(i) == Split(word_chunks[i].text)

\* The number of words of the longest prefix of `later` that is a suffix of
\* `earlier`: the overlap of two adjacent segments (the words of the input
\* are pairwise distinct).
SharedLen(earlier, later) ==
    LET fits == {L \in 0..Len(later) :
                    /\ L <= Len(earlier)
                    /\ SubSeq(earlier, Len(earlier) - L + 1, Len(earlier))
                         = SubSeq(later, 1, L)}
    IN CHOOSE L \in fits : \A M \in fits : M <= L

\* The i-th segment without the prefix it shares with its predecessor.
NonOverlap(i) ==
    IF i = 1
    THEN SegWords(1)
    ELSE SubSeq(SegWords(i), SharedLen(SegWords(i - 1), SegWords(i)) + 1,
                Len(SegWords(i)))

RECURSIVE Reconstructed(_)
\* The non-overlap portions of the first k segments, concatenated.
Reconstructed(k) == IF k = 0 THEN <<>> ELSE Reconstructed(k - 1) \o NonOverlap(k)

\* C19: the non-overlap portions of the segments returned, concatenated in
\* order, are the word sequence of the input, for every text and every
\* parameter set, also after the merge of the trailing segment.
C19_SegmentsReconstructText ==
    seg_pc = "returned" => Reconstructed(Len(word_chunks)) = Split(seg_text)

\* C20: for adjacent segments the overlap has at most overlap_words words
\* and is made of whole pseudo-sentences (the last ones of the earlier
\* segment).
C20_OverlapWithinBudget ==
    seg_pc = "returned" =>
        \A i \in 2..Len(word_chunks) :
            LET L == SharedLen(SegWords(i - 1), SegWords(i))
            IN /\ L <= seg_params.overlap_words
               /\ L > 0 =>
                    \E j \in DOMAIN sentences, j2 \in DOMAIN sentences :
                        SubSeq(SegWords(i), 1, L)
                            = Split(Join(SubSeq(sentences, j, j2)))

\* C20 witness: _chunk_by_words closed a segment of two 2-word sentences
\* with overlap_words = 2: the next segment starts with the second one.
C20_Witness ==
    /\ seg_pc = "returned" /\ seg_impl = "extractor"
    /\ seg_params.words_per_segment = 2 /\ seg_params.overlap_words = 2
    /\ Len(word_chunks) >= 2
    /\ SegWords(1) = <<1, 2, 3, 4>>
    /\ SegWords(2) = <<3, 4, 5, 6>>

\* C21: when the loop is over and the trailing chunk is not empty: if it
\* has fewer than min_final_words words and a chunk was already emitted, the
\* list returned has one chunk fewer than the split without merging, its
\* last chunk counts the words of the chunk it replaces plus those of the
\* trailing chunk, and the earlier chunks are kept; otherwise the trailing
\* chunk is appended on its own.
C21_SmallTailMerged ==
    [][(ChunkFinal /\ current_chunk # <<>>) =>
        LET unmerged == SaveChunk(seg_impl, word_chunks, current_chunk,
                                  current_word_count)
            n == Len(word_chunks)
        IN IF current_word_count < seg_params.min_final_words /\ n >= 1
           THEN /\ Len(word_chunks') = Len(unmerged) - 1
                /\ word_chunks'[n].word_count
                     = word_chunks[n].word_count + current_word_count
                /\ CountWords(word_chunks'[n].text)
                     = CountWords(word_chunks[n].text)
                         + CountWords(Join(current_chunk))
                /\ \A i \in 1..(n - 1) : word_chunks'[i] = word_chunks[i]
           ELSE word_chunks' = unmerged]_vars

\* C21 witness: chunk_by_words returned one chunk of three words, the
\* merge of a two-word chunk and a one-word tail below min_final_words.
C21_Witness ==
    /\ seg_pc = "returned" /\ seg_impl = "v2"
    /\ current_chunk = << <<3>> >>
    /\ current_word_count < seg_params.min_final_words
    /\ Len(word_chunks) = 1
    /\ SegWords(1) = <<1, 2, 3>>
    /\ word_chunks[1].word_count = 3

\* C22: the 2,050-word text with target_words 1000, max_words 1500,
\* overlap_words 100 and min_final_words 500 gives exactly two segments:
\* the first of 1000 to 1500 words, the second made of at most 100 words
\* repeated from the end of the first followed by exactly the words of the
\* input that come after the first segment, at least 500 words in all.
C22_ScenarioTwoSegments ==
    seg_pc = "returned" =>
        /\ Len(word_chunks) = 2
        /\ Len(SegWords(1)) >= 1000 /\ Len(SegWords(1)) <= 1500
        /\ Len(SegWords(2)) >= 500
        /\ LET words == Split(seg_text)
               first == SegWords(1)
               rest  == SubSeq(words, Len(first) + 1, Len(words))
           IN \E L \in 0..100 :
                SegWords(2) = SubSeq(first, Len(first) - L + 1, Len(first)) \o rest

\* The parameters satisfy overlapWords < targetWords <= maxWords.
OrderedParams ==
    /\ seg_params.overlap_words < seg_params.target_words
    /\ seg_params.target_words <= seg_params.max_words

\* The last segment returned is the merge of the small trailing chunk into
\* the segment before it (otherwise its text is the trailing chunk's).
TailMerged ==
    /\ seg_pc = "returned"
    /\ current_chunk # <<>>
    /\ word_chunks # <<>>
    /\ word_chunks[Len(word_chunks)].text # Join(current_chunk)

\* C24: with overlap_words < target_words <= max_words, every emitted
\* segment of more than one pseudo-sentence that is not the product of the
\* final small-tail merge has at most max_words words.
C24_MultiSentenceWithinMax ==
    OrderedParams =>
        \A i \in 1..Len(word_chunks) :
            (/\ word_chunks[i].sentence_count > 1
             /\ ~(i = Len(word_chunks) /\ TailMerged))
                => /\ word_chunks[i].word_count <= seg_params.max_words
                   /\ Len(SegWords(i)) <= seg_params.max_words

\* Every parameter of the run is a positive integer.
PositiveParams ==
    /\ seg_params.target_words >= 1
    /\ seg_params.max_words >= 1
    /\ seg_params.overlap_words >= 1
    /\ seg_params.min_final_words >= 1

\* C25: the word-bounded segmenter returns the empty list for an input
\* without words, and with positive parameters every segment it emits has a
\* text of at least one word, also when a pseudo-sentence is longer than
\* max_words.
C25_SegmentsNonEmpty ==
    /\ (seg_pc = "returned" /\ Split(seg_text) = <<>>) => word_chunks = <<>>
    /\ PositiveParams =>
            \A i \in 1..Len(word_chunks) :
                /\ Len(SegWords(i)) >= 1
                /\ word_chunks[i].word_count >= 1

\* The words of a word sequence, as a set.
WordSet(ws) == {ws[k] : k \in DOMAIN ws}

\* C29: with overlap_words < target_words <= max_words every emitted
\* segment holds a pseudo-sentence that is not part of the segment before
\* it (the words of the input being pairwise distinct: a word its
\* predecessor does not hold); no segment is made of carried overlap only.
C29_NoOverlapOnlySegment ==
    OrderedParams =>
        \A i \in 1..Len(word_chunks) :
            IF i = 1
            THEN WordSet(SegWords(1)) # {}
            ELSE WordSet(SegWords(i)) \ WordSet(SegWords(i - 1)) # {}

(***************************************************************************)
(* Properties of the duration-bounded segmenter.                           *)
(***************************************************************************)
\* C23: the k-th segment (k = 0, 1, 2, ...) of the list _chunk_by_duration
\* returns has start_time = k * target_duration, for dense and for sparse
\* captions, also when an interval holds no caption entry.
C23_SegmentStartsAtMultiple ==
    dur_pc = "returned" =>
        \A k \in 0..(Len(dur_chunks) - 1) :
            dur_chunks[k + 1].start_time = k * dur_params.target_duration

=============================================================================
